---- MODULE Spec2Model ----
(***************************************************************************)
(* kcam: a V4L2 camera preview.  The model follows src/main.rs (KCam::new, *)
(* KCam::open_device, KCam::get_stream and the per-frame App::update) and  *)
(* src/util.rs (capture).  App::update is one sequential handler; it is    *)
(* modelled as a chain of steps driven by pc, so that the states inside    *)
(* open_device and inside the two loops over ctrl_descriptors are visible. *)
(* Option<T> is a sequence: <<>> is None and <<x>> is Some(x).             *)
(***************************************************************************)
EXTENDS Integers, Sequences, FiniteSets, TLC

VARIABLES
    host,               \* video nodes of the machine: what enum_devices() reports
    files,              \* paths present in the capture directories
    faults,             \* failures the drivers and the file system have answered so far
    pc,                 \* position of the program
    available_devices,  \* KCam.available_devices
    selected_device,    \* KCam.selected_device (0-based)
    device_changed,     \* KCam.device_changed
    error_window,       \* KCam.error_window
    dev,                \* KCam.dev: Option<Device>
    stream,             \* KCam.stream: Option<UserptrStream>
    message,            \* KCam.message
    ctrl_descriptors,   \* KCam.ctrl_descriptors
    menu_selections,    \* KCam.menu_selections
    new_dev,            \* open_device: local dev
    new_descs,          \* open_device: local ctrl_descriptors
    new_stream,         \* open_device: local stream
    frame,              \* update: local frame, Option<Result<Frame>>
    i,                  \* update: position of the running loop over ctrl_descriptors
    reselected,         \* the last selector click chose the index already selected
    intents,            \* widgets the operator has acted on in this tick
    did_reset,          \* the Reset loop ran to its end in this tick
    captured,           \* Ok(path) returned by capture() in this tick
    fetches,            \* stream.next() calls in this tick
    reads,              \* positions of the descriptors read with dev.control() in this tick
    skipped,            \* positions of the descriptors whose dev.control() failed
    clicked,            \* the Menu item the operator clicked in this tick
    shown,              \* positions of the descriptors that got a widget in this tick
    presented,          \* the widget added by the last step
    writes              \* the dev.set_control() calls of this tick, in order

env_vars == <<host, files, faults>>

field_vars == <<available_devices, selected_device, device_changed, error_window, dev,
                stream, message, ctrl_descriptors, menu_selections>>

open_vars == <<new_dev, new_descs, new_stream>>

tick_vars == <<intents, did_reset, captured, fetches, reads, skipped, clicked, shown,
               presented, writes>>

vars == <<env_vars, pc, field_vars, open_vars, frame, i, reselected, tick_vars>>

-----------------------------------------------------------------------------
(* Bounds *)

\* The operator acts on at most this many widgets in one tick.
MaxIntents == 2

\* The drivers and the file system answer with a failure at most this many times.
MaxFaults == 1

\* The clock reads 0..MaxTs (milliseconds, as formatted by %3f).
MaxTs == 0

\* dev.control() on an Integer control returns a value in -HwSlack .. maximum + HwSlack.
HwSlack == 1

-----------------------------------------------------------------------------
(* Option *)

None == <<>>
Some(x) == <<x>>
IsSome(o) == o # <<>>
Unwrap(o) == o[1]

-----------------------------------------------------------------------------
(* v4l::control *)

\* Type as u32, the key of the sort in open_device
TypeOrd(typ) ==
    CASE typ = "Integer" -> 1
      [] typ = "Boolean" -> 2
      [] typ = "Menu"    -> 3
      [] typ = "Button"  -> 4

\* MenuItem::Name(name) and MenuItem::Value(val)
ItemName(s) == [tag |-> "Name", name |-> s, val |-> 0]
ItemValue(n) == [tag |-> "Value", name |-> "", val |-> n]

\* Value::Integer(v) and Value::Boolean(b)
ValueInteger(v) == [kind |-> "Integer", int |-> v, bool |-> FALSE]
ValueBoolean(b) == [kind |-> "Boolean", int |-> 0, bool |-> b]

Digits == <<"0", "1", "2", "3", "4", "5", "6", "7", "8", "9">>

\* i64::to_string for a non-negative value
RECURSIVE to_string(_)
to_string(n) ==
    IF n < 10 THEN Digits[n + 1]
    ELSE to_string(n \div 10) \o Digits[(n % 10) + 1]

\* the closure stringify
stringify(item) ==
    IF item.tag = "Name" THEN item.name ELSE to_string(item.val)

Desc(id, name, typ, minimum, maximum, step, default, items) ==
    [id |-> id, name |-> name, typ |-> typ, minimum |-> minimum, maximum |-> maximum,
     step |-> step, default |-> default, items |-> items]

-----------------------------------------------------------------------------
(* The machine: video nodes, what each of them answers *)

Node(index, kind) == [index |-> index, kind |-> kind]

\* The controls each kind of node reports to query_controls(), in the driver's order.
Catalog(kind) ==
    CASE kind = "camA" ->
           << Desc(1, "mode", "Menu", 0, 1, 1, 1,
                   Some(<< <<0, ItemName("Low")>>, <<1, ItemName("High")>> >>)),
              Desc(2, "gain", "Integer", 0, 2, 2, 2, None),
              Desc(3, "focus now", "Button", 0, 0, 0, 0, None),
              Desc(4, "auto", "Boolean", 0, 1, 1, 1, None) >>
      [] kind = "camB" ->
           << Desc(1, "mode", "Menu", 0, 2, 1, 1,
                   Some(<< <<0, ItemName("Off")>>, <<1, ItemValue(1)>>,
                           <<2, ItemName("1")>> >>)) >>
      [] kind = "camC" ->
           << Desc(7, "snap", "Button", 0, 0, 0, 0, None),
              Desc(5, "scene", "Menu", 0, 3, 1, 3,
                   Some(<< <<0, ItemName("Day")>> >>)),
              Desc(6, "preset", "Menu", 0, 0, 1, 0, None) >>
      [] OTHER -> << >>

\* Whether set_format() leaves the node's format at MJPG: a metadata node does not.
SupportsMJPG(kind) == kind # "meta"

\* The machines the program is started on.
Hosts ==
    { << >>,
      << Node(1, "meta") >>,
      << Node(0, "camC"), Node(1, "meta") >>,
      << Node(0, "camA"), Node(2, "camB") >> }

KindOf(index) ==
    LET n == CHOOSE n \in 1..Len(host) : host[n].index = index IN host[n].kind

\* ctrl_descriptors.sort_by(|a, b| (a.typ as u32).cmp(&(b.typ as u32))): a stable sort.
RECURSIVE Insert(_, _)
Insert(sorted, d) ==
    IF sorted = << >> THEN << d >>
    ELSE IF TypeOrd(sorted[Len(sorted)].typ) <= TypeOrd(d.typ) THEN Append(sorted, d)
    ELSE Append(Insert(SubSeq(sorted, 1, Len(sorted) - 1), d), sorted[Len(sorted)])

\* The catalog in the order the driver reports it: no sort.
unsorted(descs) == descs

RECURSIVE SortByType(_)
SortByType(descs) ==
    IF descs = << >> THEN << >>
    ELSE Insert(SortByType(SubSeq(descs, 1, Len(descs) - 1)), descs[Len(descs)])

-----------------------------------------------------------------------------
(* What the drivers and the file system answer *)

\* The answers to one call: TRUE is success, FALSE a failure.
Answers == {TRUE} \cup {ok \in {FALSE} : faults < MaxFaults}

Fault(ok) == faults' = IF ok THEN faults ELSE faults + 1

-----------------------------------------------------------------------------
(* The observations of one tick, cleared when the tick ends *)

ClearTick ==
    /\ intents' = 0
    /\ did_reset' = FALSE
    /\ captured' = None
    /\ fetches' = 0
    /\ reads' = << >>
    /\ skipped' = {}
    /\ clicked' = None
    /\ shown' = {}
    /\ presented' = None
    /\ writes' = << >>

\* A panic in update: the process ends, the KCam value and update's locals are dropped.
Panic ==
    /\ pc' = "crashed"
    /\ available_devices' = << >>
    /\ selected_device' = 0
    /\ device_changed' = FALSE
    /\ error_window' = [visible |-> FALSE, message |-> ""]
    /\ dev' = None
    /\ stream' = None
    /\ message' = << "" >>
    /\ ctrl_descriptors' = << >>
    /\ menu_selections' = << >>
    /\ frame' = None
    /\ i' = 0
    /\ reselected' = FALSE
    /\ ClearTick
    /\ UNCHANGED <<host, files, open_vars>>

-----------------------------------------------------------------------------
(* main and KCam::new *)

Init ==
    /\ host \in Hosts
    /\ files = {}
    /\ faults = 0
    /\ pc = "main"
    /\ available_devices = << >>
    /\ selected_device = 0
    /\ device_changed = FALSE
    /\ error_window = [visible |-> FALSE, message |-> ""]
    /\ dev = None
    /\ stream = None
    /\ message = << "" >>
    /\ ctrl_descriptors = << >>
    /\ menu_selections = << >>
    /\ new_dev = None
    /\ new_descs = << >>
    /\ new_stream = None
    /\ frame = None
    /\ i = 0
    /\ reselected = FALSE
    /\ intents = 0
    /\ did_reset = FALSE
    /\ captured = None
    /\ fetches = 0
    /\ reads = << >>
    /\ skipped = {}
    /\ clicked = None
    /\ shown = {}
    /\ presented = None
    /\ writes = << >>

\* What enum_devices() reports, as KCam::new stores it.
enum_devices == host

\* KCam::new() as main calls it: every field gets its initial value, the device list is
\* what enum_devices() reports, and the result is always Ok, so expect() passes and
\* run_native starts the tick loop.
KCam_new ==
    /\ pc = "main"
    /\ available_devices' = enum_devices
    /\ selected_device' = 0
    /\ device_changed' = FALSE
    /\ error_window' = [visible |-> FALSE, message |-> ""]
    /\ dev' = None
    /\ stream' = None
    /\ message' = << "" >>
    /\ ctrl_descriptors' = << >>
    /\ menu_selections' = << >>
    /\ pc' = "idle"
    /\ UNCHANGED <<env_vars, open_vars, frame, i, reselected, tick_vars>>

-----------------------------------------------------------------------------
(* App::update, first part: the pending device change *)

\* self.available_devices[self.selected_device].index()
device_index == available_devices[selected_device + 1].index

\* An open is also due while the error of the last one is on display.
open_pending_or_failed == device_changed \/ error_window.visible

\* if self.device_changed
open_pending == device_changed

\* if self.device_changed { self.error_window.visible = false; ... open_device ... }
UpdateBegin ==
    /\ pc = "idle"
    /\ IF open_pending
       THEN /\ error_window' = [error_window EXCEPT !.visible = FALSE]
            /\ pc' = "Device_new"
       ELSE /\ pc' = "next_frame"
            /\ UNCHANGED error_window
    /\ UNCHANGED <<env_vars, available_devices, selected_device, device_changed, dev,
                   stream, message, ctrl_descriptors, menu_selections, open_vars, frame,
                   i, reselected, tick_vars>>

\* The message is stored and the window is left closed.
error_shown_hidden(err) == [visible |-> FALSE, message |-> err]

\* self.error_window.message = format!("{err:#}"); self.error_window.visible = true
error_shown(err) == [visible |-> TRUE, message |-> err]

\* A failed open that also lets go of the device held so far.
OpenFailed_teardown(err) ==
    /\ error_window' = error_shown(err)
    /\ device_changed' = FALSE
    /\ new_dev' = None
    /\ new_descs' = << >>
    /\ new_stream' = None
    /\ reselected' = FALSE
    /\ pc' = "next_frame"
    /\ dev' = None
    /\ stream' = None
    /\ ctrl_descriptors' = << >>
    /\ UNCHANGED menu_selections

\* open_device returned Err(err): the error window shows it; self.device_changed = false.
\* The locals of open_device are dropped.
OpenFailed(err) ==
    /\ error_window' = error_shown(err)
    /\ device_changed' = FALSE
    /\ new_dev' = None
    /\ new_descs' = << >>
    /\ new_stream' = None
    /\ reselected' = FALSE
    /\ pc' = "next_frame"
    /\ UNCHANGED <<dev, stream, ctrl_descriptors, menu_selections>>

\* The identity of the Device that Device::new returns: it is not the Device self.dev
\* holds.  Two identities are enough, a Device that was dropped is not met again.
fresh_id == IF IsSome(dev) /\ Unwrap(dev).id = 1 THEN 2 ELSE 1

\* let mut dev = Device::new(index).context("Failed to open video device.")?
Device_new ==
    /\ pc = "Device_new"
    /\ \E ok \in Answers :
         /\ Fault(ok)
         /\ IF ok
            THEN /\ new_dev' = Some([id |-> fresh_id, index |-> device_index])
                 /\ pc' = "query_controls"
                 /\ UNCHANGED <<error_window, device_changed, new_descs, new_stream, dev,
                                stream, ctrl_descriptors, menu_selections, reselected>>
            ELSE OpenFailed("Failed to open video device.")
    /\ UNCHANGED <<host, files, available_devices, selected_device, message, frame, i,
                   tick_vars>>

\* dev.query_controls().unwrap_or_default(), then the sort by type
query_controls ==
    /\ pc = "query_controls"
    /\ \E ok \in Answers :
         /\ Fault(ok)
         /\ new_descs' = SortByType(IF ok THEN Catalog(KindOf(Unwrap(new_dev).index))
                                          ELSE << >>)
    /\ pc' = "get_stream"
    /\ UNCHANGED <<host, files, field_vars, new_dev, new_stream, frame, i, reselected,
                   tick_vars>>

\* Self::get_stream(&mut dev).context("Failed to open stream.")?: set_format, params,
\* the MJPG check and UserptrStream::with_buffers.  The MJPG check fails on a node that
\* cannot deliver MJPG; on the others any of the calls may fail.
get_stream ==
    /\ pc = "get_stream"
    /\ IF SupportsMJPG(KindOf(Unwrap(new_dev).index))
       THEN \E ok \in Answers :
              /\ Fault(ok)
              /\ IF ok
                 THEN /\ new_stream' = Some([dev |-> Unwrap(new_dev).id])
                      /\ pc' = "assign"
                      /\ UNCHANGED <<error_window, device_changed, new_dev, new_descs,
                                     dev, stream, ctrl_descriptors, menu_selections,
                                     reselected>>
                 ELSE OpenFailed("Failed to open stream.")
       ELSE /\ OpenFailed("Failed to open stream.")
            /\ UNCHANGED faults
    /\ UNCHANGED <<host, files, available_devices, selected_device, message, frame, i,
                   tick_vars>>

\* menu_selections when open_device has succeeded: open_device does not touch it
selections_after_open(selections) == selections

\* self.dev = Some(dev); self.stream = Some(stream); self.ctrl_descriptors = ...; Ok(())
\* The previous Device and UserptrStream are dropped by these assignments.
open_device_assign ==
    /\ pc = "assign"
    /\ dev' = new_dev
    /\ stream' = new_stream
    /\ ctrl_descriptors' = new_descs
    /\ menu_selections' = selections_after_open(menu_selections)
    /\ device_changed' = FALSE
    /\ new_dev' = None
    /\ new_descs' = << >>
    /\ new_stream' = None
    /\ reselected' = FALSE
    /\ pc' = "next_frame"
    /\ UNCHANGED <<env_vars, available_devices, selected_device, error_window, message,
                   frame, i, tick_vars>>

-----------------------------------------------------------------------------
(* App::update, second part: the frame, the device selector, the two buttons *)

FrameOk == [ok |-> TRUE, err |-> ""]
FrameErr(e) == [ok |-> FALSE, err |-> e]

\* What the closure next_frame returns: stream.next() or decode() may fail.
FrameResults ==
    {FrameOk} \cup {FrameErr(e) : e \in {c \in {"Failed to fetch frame",
                                                "Failed to decode jpg buffer"} :
                                            faults < MaxFaults}}

\* let frame = self.stream.as_mut().map(next_frame)
next_frame ==
    /\ pc = "next_frame"
    /\ IF IsSome(stream)
       THEN /\ \E r \in FrameResults : frame' = Some(r) /\ Fault(r.ok)
            /\ fetches' = fetches + 1
       ELSE /\ frame' = None
            /\ UNCHANGED <<fetches, faults>>
    /\ pc' = "selector"
    /\ UNCHANGED <<host, files, field_vars, open_vars, i, reselected, intents, did_reset,
                   captured, reads, skipped, clicked, shown, presented, writes>>

\* Whether one more widget may report an operator action in this tick.
MayAct == intents < MaxIntents

\* What button.clicked() or response.changed() may answer.
Clicks == {FALSE} \cup {c \in {TRUE} : MayAct}

NoClick == 0 - 1

\* The items the operator may click in the device combo box this tick.
SelectorClicks == {NoClick} \cup {k \in 0..(Len(available_devices) - 1) : MayAct}

\* ComboBox::show_index(.., &mut self.selected_device, len, |i| ..available_devices[i]..)
\* calls the closure on the selected index to draw the box: with no device enumerated
\* &self.available_devices[0] is out of bounds.
selector_panic ==
    /\ pc = "selector"
    /\ Len(available_devices) = 0
    /\ Panic
    /\ UNCHANGED faults

\* The device combo box and `if device_selector.changed() { self.device_changed = true }`:
\* a click on any item, the selected one included, stores its index in selected_device
\* and marks the response changed.
device_selector ==
    /\ pc = "selector"
    /\ Len(available_devices) > 0
    /\ pc' = "photo"
    /\ \E click \in SelectorClicks :
         IF click = NoClick
         THEN UNCHANGED <<selected_device, device_changed, reselected, intents>>
         ELSE /\ selected_device' = click
              /\ device_changed' = TRUE
              /\ reselected' = (click = selected_device)
              /\ intents' = intents + 1
    /\ UNCHANGED <<env_vars, available_devices, error_window, dev, stream, message,
                   ctrl_descriptors, menu_selections, open_vars, frame, i, did_reset,
                   captured, fetches, reads, skipped, clicked, shown, presented, writes>>

Timestamps == 0..MaxTs

\* save_img(parent_dir): the file name is the local time to the millisecond; fs::write
\* creates the file or replaces the one of that name.
save_img(parent_dir, ts) == <<parent_dir, ts>>

\* capture(img): save_img(the pictures directory), or else save_img(the current one).
\* Each result is <<files after the call, Ok(path) or Err, whether the first save_img
\* succeeded>>.
CaptureResults ==
    {<<files \cup {save_img("Pictures", ts)}, Some(save_img("Pictures", ts)), TRUE>> :
        ts \in Timestamps}
    \cup {<<files \cup {save_img("", ts)}, Some(save_img("", ts)), FALSE>> :
        ts \in {t \in Timestamps : faults < MaxFaults}}
    \cup {r \in {<<files, None, FALSE>>} : faults < MaxFaults}

\* if let Some(Ok(frame)) = &frame { if button("Take Photo").clicked() { ... } }
take_photo ==
    /\ pc = "photo"
    /\ IF frame = Some(FrameOk)
       THEN \E click \in Clicks :
              IF click
              THEN /\ \E r \in CaptureResults :
                        /\ files' = r[1]
                        /\ captured' = r[2]
                        /\ message' = IF IsSome(r[2])
                                      THEN <<"Saved capture: ", Unwrap(r[2])>>
                                      ELSE <<"Failed to take photo: ">>
                        /\ Fault(r[3])
                   /\ intents' = intents + 1
              ELSE UNCHANGED <<files, captured, message, intents, faults>>
       ELSE UNCHANGED <<files, captured, message, intents, faults>>
    /\ pc' = "reset"
    /\ UNCHANGED <<host, available_devices, selected_device, device_changed,
                   error_window, dev, stream, ctrl_descriptors, menu_selections,
                   open_vars, frame, i, reselected, did_reset, fetches, reads, skipped,
                   clicked, shown, presented, writes>>

\* if sidebar.button("Reset").clicked() { for desc in &self.ctrl_descriptors { ... } }
reset_button ==
    /\ pc = "reset"
    /\ \E click \in Clicks :
         IF click THEN pc' = "reset_loop" /\ i' = 1 /\ intents' = intents + 1
                  ELSE pc' = "controls" /\ i' = 0 /\ UNCHANGED intents
    /\ UNCHANGED <<env_vars, field_vars, open_vars, frame, reselected, did_reset,
                   captured, fetches, reads, skipped, clicked, shown, presented, writes>>

-----------------------------------------------------------------------------
(* App::update, third part: restore defaults *)

\* menu_selections.insert(name, label)
insert(selections, name, label) ==
    [n \in DOMAIN selections \cup {name} |-> IF n = name THEN label ELSE selections[n]]

\* items.iter().map(|(v, item)| (v, stringify(item))): the pairs (raw value, label)
menu_items(desc) ==
    [k \in 1..Len(Unwrap(desc.items)) |->
        <<Unwrap(desc.items)[k][1], stringify(Unwrap(desc.items)[k][2])>>]

\* find_map(|(v, label)| (*v as i64 == desc.default).then_some(label)): the label of the
\* first item whose raw value is the default, None when there is none.
default_label(desc) ==
    LET items == menu_items(desc)
        hits == {k \in 1..Len(items) : items[k][1] = desc.default}
    IN IF hits = {} THEN None
       ELSE Some(items[CHOOSE k \in hits : \A h \in hits : k <= h][2])

\* The value Reset writes: None stands for `continue`.
reset_value(desc) ==
    CASE desc.typ \in {"Integer", "Menu"} -> Some(ValueInteger(desc.default))
      [] desc.typ = "Boolean" -> Some(ValueBoolean(desc.default # 0))
      [] OTHER -> None

\* dev.set_control(Control { value, id: desc.id }) for the descriptor at pos; ok is what
\* the driver answers.  An Err is logged with debug! and nothing else.
set_control(by, pos, value, ok) ==
    /\ writes' = Append(writes, [by |-> by, pos |-> pos, dev |-> Unwrap(dev).id,
                                 id |-> ctrl_descriptors[pos].id, value |-> value,
                                 ok |-> ok])
    /\ Fault(ok)

\* Reset without line 205: the table is left as it was.
reset_selections_stale(selections, desc, label) == selections

\* Reset: self.menu_selections.insert(desc.name.to_owned(), label)
reset_selections(selections, desc, label) == insert(selections, desc.name, label)

\* find_map(..).unwrap() in Reset meets None: a Menu with items, none of which has the
\* default as its raw value.
reset_unwrap_none(desc) ==
    /\ desc.typ = "Menu"
    /\ desc.items # None
    /\ default_label(desc) = None

reset_panic ==
    /\ pc = "reset_loop"
    /\ i <= Len(ctrl_descriptors)
    /\ reset_unwrap_none(ctrl_descriptors[i])
    /\ Panic
    /\ UNCHANGED faults

\* One iteration of the Reset loop, on ctrl_descriptors[i].
reset_step ==
    /\ pc = "reset_loop"
    /\ i <= Len(ctrl_descriptors)
    /\ ~reset_unwrap_none(ctrl_descriptors[i])
    /\ LET desc == ctrl_descriptors[i]
           value == reset_value(desc)
           is_menu == desc.typ = "Menu"
       IN IF value = None \/ (is_menu /\ desc.items = None)
          THEN UNCHANGED <<menu_selections, writes, faults>>       \* continue
          ELSE /\ menu_selections' =
                     IF is_menu
                     THEN reset_selections(menu_selections, desc, Unwrap(default_label(desc)))
                     ELSE menu_selections
               /\ IF IsSome(dev)
                  THEN \E ok \in Answers : set_control("reset", i, Unwrap(value), ok)
                  ELSE UNCHANGED <<writes, faults>>
    /\ i' = i + 1
    /\ UNCHANGED <<host, files, pc, available_devices, selected_device, device_changed,
                   error_window, dev, stream, message, ctrl_descriptors, open_vars, frame,
                   reselected, intents, did_reset, captured, fetches, reads, skipped,
                   clicked, shown, presented>>

\* The Reset loop has run over every descriptor.
reset_done ==
    /\ pc = "reset_loop"
    /\ i > Len(ctrl_descriptors)
    /\ pc' = "controls"
    /\ i' = 0
    /\ did_reset' = TRUE
    /\ UNCHANGED <<env_vars, field_vars, open_vars, frame, reselected, intents, captured,
                   fetches, reads, skipped, clicked, shown, presented, writes>>

-----------------------------------------------------------------------------
(* App::update, fourth part: one widget per control *)

\* if let Some(dev) = self.dev.as_mut() { for desc in &mut self.ctrl_descriptors { ... } }
controls_begin ==
    /\ pc = "controls"
    /\ IF IsSome(dev) THEN pc' = "ctrl_loop" /\ i' = 1
                      ELSE pc' = "status" /\ i' = 0
    /\ UNCHANGED <<env_vars, field_vars, open_vars, frame, reselected, tick_vars>>

\* The integers dev.control(desc.id) may answer with.
HwInts(desc) == (desc.minimum - HwSlack)..(desc.maximum + HwSlack)

\* What dev.control(desc.id) may answer: Err (None), or a value; a value of another kind
\* than the descriptor's counts as a failure of the driver.
ReadResults(desc) ==
    IF desc.typ = "Integer"
    THEN {Some(ValueInteger(v)) : v \in HwInts(desc)}
         \cup {r \in {None, Some(ValueBoolean(TRUE))} : faults < MaxFaults}
    ELSE {Some(ValueBoolean(b)) : b \in BOOLEAN}
         \cup {r \in {None, Some(ValueInteger(0))} : faults < MaxFaults}

\* The widget handed to the sidebar for the descriptor at pos.
Widget(pos, kind, int, bool, label) ==
    [pos |-> pos, kind |-> kind, int |-> int, bool |-> bool, label |-> label]

\* Slider::new(&mut value, minimum..=maximum).step_by(step).text(name): the slider is
\* built on the value that was read.
slider(pos, value) == Widget(pos, "Slider", value, FALSE, "")

\* The values the slider can leave in `value` when the operator moves it.
SliderValues(desc) == {v \in desc.minimum..desc.maximum : v % desc.step = 0}

\* `break` in place of `continue`: the loop is left at the first failed read.
after_read_error_break(pos) == Len(ctrl_descriptors) + 1

\* The loop's position after a failed dev.control(): `continue`.
after_read_error(pos) == pos + 1

\* match current_value { .., _ => unreachable!() }: dev.control() answered with a value
\* of another kind than the descriptor's.
control_panic ==
    /\ pc = "ctrl_loop"
    /\ i <= Len(ctrl_descriptors)
    /\ ctrl_descriptors[i].typ \in {"Integer", "Boolean"}
    /\ \E r \in ReadResults(ctrl_descriptors[i]) :
         r # None /\ Unwrap(r).kind # ctrl_descriptors[i].typ
    /\ Panic
    /\ faults' = faults + 1

\* Type::Integer
integer_control ==
    /\ pc = "ctrl_loop"
    /\ i <= Len(ctrl_descriptors)
    /\ ctrl_descriptors[i].typ = "Integer"
    /\ reads' = Append(reads, i)
    /\ \E r \in ReadResults(ctrl_descriptors[i]) :
         IF r = None
         THEN /\ i' = after_read_error(i)
              /\ presented' = None
              /\ skipped' = skipped \cup {i}
              /\ faults' = faults + 1
              /\ UNCHANGED <<shown, writes, intents>>
         ELSE /\ Unwrap(r).kind = "Integer"
              /\ presented' = Some(slider(i, Unwrap(r).int))
              /\ shown' = shown \cup {i}
              /\ UNCHANGED skipped
              /\ \E changed \in Clicks :
                   IF changed
                   THEN /\ \E value \in SliderValues(ctrl_descriptors[i])
                                            \ {Unwrap(r).int} :
                             \E ok \in Answers :
                               set_control("edit", i, ValueInteger(value), ok)
                        /\ intents' = intents + 1
                   ELSE UNCHANGED <<writes, intents, faults>>
              /\ i' = i + 1
    /\ UNCHANGED <<host, files, pc, field_vars, open_vars, frame, reselected, did_reset,
                   captured, fetches, clicked>>

\* Type::Boolean
boolean_control ==
    /\ pc = "ctrl_loop"
    /\ i <= Len(ctrl_descriptors)
    /\ ctrl_descriptors[i].typ = "Boolean"
    /\ reads' = Append(reads, i)
    /\ \E r \in ReadResults(ctrl_descriptors[i]) :
         IF r = None
         THEN /\ i' = after_read_error(i)
              /\ presented' = None
              /\ skipped' = skipped \cup {i}
              /\ faults' = faults + 1
              /\ UNCHANGED <<shown, writes, intents>>
         ELSE /\ Unwrap(r).kind = "Boolean"
              /\ presented' = Some(Widget(i, "Checkbox", 0, Unwrap(r).bool, ""))
              /\ shown' = shown \cup {i}
              /\ UNCHANGED skipped
              /\ \E changed \in Clicks :
                   IF changed
                   THEN /\ \E ok \in Answers :
                             set_control("edit", i, ValueBoolean(~Unwrap(r).bool), ok)
                        /\ intents' = intents + 1
                   ELSE UNCHANGED <<writes, intents, faults>>
              /\ i' = i + 1
    /\ UNCHANGED <<host, files, pc, field_vars, open_vars, frame, reselected, did_reset,
                   captured, fetches, clicked>>

\* insert in place of entry().or_insert_with(): an entry that exists is replaced.
or_insert_select_always(selections, name) == insert(selections, name, "select")

\* self.menu_selections.entry(desc.name.clone()).or_insert_with(|| "select".to_string())
or_insert_select(selections, name) ==
    IF name \in DOMAIN selections THEN selections ELSE insert(selections, name, "select")

\* The raw value of the first item of the table, whatever the label.
value_of_label_first(items, label) == items[1][1]

\* find_map(|(v, label)| (label == selected).then_some(v)).unwrap(): the raw value of the
\* first item that carries the label.
value_of_label(items, label) ==
    items[CHOOSE k \in 1..Len(items) :
            /\ items[k][2] = label
            /\ \A h \in 1..Len(items) : items[h][2] = label => k <= h][1]

\* Type::Menu
menu_control ==
    /\ pc = "ctrl_loop"
    /\ i <= Len(ctrl_descriptors)
    /\ ctrl_descriptors[i].typ = "Menu"
    /\ LET desc == ctrl_descriptors[i] IN
       IF desc.items = None
       THEN \* continue
            /\ presented' = None
            /\ UNCHANGED <<menu_selections, clicked, shown, writes, intents, faults>>
       ELSE LET items == menu_items(desc)
                entries == or_insert_select(menu_selections, desc.name)
            IN /\ presented' = Some(Widget(i, "ComboBox", 0, FALSE, entries[desc.name]))
               /\ shown' = shown \cup {i}
               /\ \E click \in {0} \cup {k \in 1..Len(items) : MayAct} :
                    IF click = 0
                    THEN /\ menu_selections' = entries
                         /\ UNCHANGED <<clicked, writes, intents, faults>>
                    ELSE /\ menu_selections' = insert(entries, desc.name, items[click][2])
                         /\ clicked' = Some([pos |-> i, item |-> click])
                         /\ intents' = intents + 1
                         /\ \E ok \in Answers :
                              set_control("edit", i,
                                  ValueInteger(value_of_label(items, items[click][2])), ok)
    /\ i' = i + 1
    /\ UNCHANGED <<host, files, pc, available_devices, selected_device, device_changed,
                   error_window, dev, stream, message, ctrl_descriptors, open_vars, frame,
                   reselected, did_reset, captured, fetches, reads, skipped>>

\* t => debug!("Unhandled available ctrl ...")
unhandled_control ==
    /\ pc = "ctrl_loop"
    /\ i <= Len(ctrl_descriptors)
    /\ ctrl_descriptors[i].typ \notin {"Integer", "Boolean", "Menu"}
    /\ i' = i + 1
    /\ presented' = None
    /\ UNCHANGED <<env_vars, pc, field_vars, open_vars, frame, reselected, intents,
                   did_reset, captured, fetches, reads, skipped, clicked, shown, writes>>

\* The loop over the controls has run over every descriptor.
controls_done ==
    /\ pc = "ctrl_loop"
    /\ i > Len(ctrl_descriptors)
    /\ pc' = "status"
    /\ i' = 0
    /\ presented' = None
    /\ UNCHANGED <<env_vars, field_vars, open_vars, frame, reselected, intents,
                   did_reset, captured, fetches, reads, skipped, clicked, shown, writes>>

-----------------------------------------------------------------------------
(* App::update, last part: the status line; the tick ends *)

\* The status line without lines 331-334: a frame error is logged only.
status_message_kept(msg, fr) == msg

\* if let Some(Err(e)) = &frame { self.message = e.to_string() }
status_message(msg, fr) ==
    IF IsSome(fr) /\ ~Unwrap(fr).ok THEN <<Unwrap(fr).err>> ELSE msg

\* Window::new("v4l error").open(&mut self.error_window.visible): the window is drawn
\* while visible is set, and its close button clears it.
WindowCloses == {FALSE} \cup {c \in {TRUE} : error_window.visible /\ MayAct}

\* The status line, the error window and the image panel; the tick ends.
status ==
    /\ pc = "status"
    /\ message' = status_message(message, frame)
    /\ \E close \in WindowCloses :
         error_window' = IF close THEN [error_window EXCEPT !.visible = FALSE]
                                  ELSE error_window
    /\ frame' = None
    /\ pc' = "idle"
    /\ ClearTick
    /\ UNCHANGED <<env_vars, available_devices, selected_device, device_changed,
                   dev, stream, ctrl_descriptors, menu_selections, open_vars, i,
                   reselected>>

-----------------------------------------------------------------------------

Next ==
    \/ KCam_new
    \/ UpdateBegin
    \/ Device_new
    \/ query_controls
    \/ get_stream
    \/ open_device_assign
    \/ next_frame
    \/ selector_panic
    \/ device_selector
    \/ take_photo
    \/ reset_button
    \/ reset_panic
    \/ reset_step
    \/ reset_done
    \/ controls_begin
    \/ control_panic
    \/ integer_control
    \/ boolean_control
    \/ menu_control
    \/ unhandled_control
    \/ controls_done
    \/ status

Spec == Init /\ [][Next]_vars

-----------------------------------------------------------------------------
(* Properties *)

\* The positions of the descriptors the control loop reads from the hardware.
ReadPositions ==
    {k \in 1..Len(ctrl_descriptors) : ctrl_descriptors[k].typ \in {"Integer", "Boolean"}}

\* The positions of the Menu descriptors that have a label table.
MenuPositions ==
    {k \in 1..Len(ctrl_descriptors) :
        ctrl_descriptors[k].typ = "Menu" /\ ctrl_descriptors[k].items # None}

\* C1: when the switch from the open device to another one is completed, the shadow
\* table holds no label from the time the old device was open: every entry left in
\* menu_selections is the "select" sentinel.
C1_SwitchClearsSelections ==
    [][(/\ pc = "assign"
        /\ IsSome(dev)
        /\ Unwrap(dev).index # Unwrap(new_dev).index)
       => \A n \in DOMAIN menu_selections' : menu_selections'[n] = "select"]_vars

\* C2: while a click on the device that is selected and open is pending or being
\* handled, no Device::new is started and the stream held stays the same object.
C2_ReselectKeepsStream ==
    [][(/\ reselected
        /\ IsSome(dev)
        /\ IsSome(stream)
        /\ Unwrap(dev).index = device_index)
       => (pc' # "Device_new" /\ stream' = stream)]_vars

\* C3: once the device list is built, no node in available_devices is a device that
\* fails the MJPG negotiation.
C3_ListHoldsOnlyStreamable ==
    pc # "main" =>
        \A k \in 1..Len(available_devices) : SupportsMJPG(available_devices[k].kind)

\* C4: when the Reset loop has run, every Menu descriptor with an item whose raw value
\* is the default has that item's label as its menu_selections entry, whatever
\* set_control answered; and the combo box drawn for it later in the tick shows that
\* label, with no dev.control() issued for it.
C4_ResetSetsShadowEntry ==
    did_reset =>
        /\ pc = "controls" =>
             \A k \in MenuPositions :
                /\ ctrl_descriptors[k].name \in DOMAIN menu_selections
                /\ Some(menu_selections[ctrl_descriptors[k].name])
                       = default_label(ctrl_descriptors[k])
        /\ (IsSome(presented) /\ Unwrap(presented).kind = "ComboBox") =>
             /\ Some(Unwrap(presented).label)
                    = default_label(ctrl_descriptors[Unwrap(presented).pos])
             /\ \A r \in 1..Len(reads) : reads[r] # Unwrap(presented).pos

\* Reset ran, the write of a Menu default failed, and the combo box of that Menu is
\* drawn with the default's label.
C4_Witness ==
    /\ did_reset
    /\ pc = "ctrl_loop"
    /\ IsSome(presented)
    /\ Unwrap(presented).kind = "ComboBox"
    /\ Some(Unwrap(presented).label)
           = default_label(ctrl_descriptors[Unwrap(presented).pos])
    /\ \E w \in 1..Len(writes) :
         /\ writes[w].by = "reset"
         /\ writes[w].pos = Unwrap(presented).pos
         /\ ~writes[w].ok

\* C5: the value a slider is built on lies in [minimum, maximum] and is minimum plus a
\* whole number of steps.
C5_SliderValueOnGrid ==
    (IsSome(presented) /\ Unwrap(presented).kind = "Slider") =>
        LET desc == ctrl_descriptors[Unwrap(presented).pos]
            value == Unwrap(presented).int
        IN /\ desc.minimum <= value
           /\ value <= desc.maximum
           /\ (value - desc.minimum) % desc.step = 0

\* C6: a failed read of an Integer or Boolean control skips that control only.  When
\* the control loop is over every Integer and Boolean descriptor was read exactly once,
\* in catalog order, and every control got its widget but those whose read failed; and
\* the step of a failed read goes on to the next descriptor and changes neither the
\* status message nor the error window.
C6_FailedReadSkipsOneControl ==
    /\ []((pc = "status" /\ IsSome(dev)) =>
            /\ Len(reads) = Cardinality(ReadPositions)
            /\ {reads[r] : r \in 1..Len(reads)} = ReadPositions
            /\ \A r \in 1..(Len(reads) - 1) : reads[r] < reads[r + 1]
            /\ skipped \subseteq ReadPositions
            /\ shown = (ReadPositions \ skipped) \cup MenuPositions)
    /\ [][(pc = "ctrl_loop" /\ skipped' \ skipped # {}) =>
            /\ pc' = "ctrl_loop"
            /\ i' = i + 1
            /\ skipped' = skipped \cup {i}
            /\ message' = message
            /\ error_window' = error_window
            /\ writes' = writes
            /\ shown' = shown]_vars

\* A read failed, and a control after the failed one was presented in the same tick.
C6_Witness ==
    /\ pc = "status"
    /\ \E k \in skipped : \E later \in shown : k < later

\* C7: a successful capture writes a file name that no file has yet.
C7_CaptureNeverOverwrites ==
    [][(pc = "photo" /\ IsSome(captured')) => Unwrap(captured') \notin files]_vars

\* C8: on a host with no device that can stream MJPG the program does not get past
\* start-up: the tick loop is not entered.
C8_NoTickLoopWithoutDevice ==
    (\A k \in 1..Len(host) : ~SupportsMJPG(host[k].kind)) => pc = "main"

\* C9: on a host with a video device the tick loop never panics, whatever the operator
\* clicks, the driver answers and the control catalog holds.
C9_TickLoopNeverPanics ==
    Len(host) > 0 => pc # "crashed"

\* C10: during open_device the old stream is never held together with a newly opened
\* device or a newly negotiated stream.
C10_OldStreamReleasedFirst ==
    ~(IsSome(stream) /\ (IsSome(new_dev) \/ IsSome(new_stream)))
\* C11: once a device change has been handled, the device that frames are fetched from
\* and controls are read from and written to is the selected one, also when the open of
\* the selected device failed: the previously selected device is no longer in use.
C11_PreviousDeviceUnused ==
    (pc = "next_frame" /\ IsSome(stream)) => Unwrap(dev).index = device_index

\* C12: a failed open shows the error window with the failure message and clears the
\* pending change; an open is started only on a pending change, which only a click in
\* the device selector sets; and a successful open leaves the error window hidden.
C12_OpenFailureSurfaced ==
    /\ [][(pc \in {"Device_new", "get_stream"} /\ pc' = "next_frame") =>
            /\ error_window'.visible
            /\ error_window'.message \in {"Failed to open video device.",
                                          "Failed to open stream."}
            /\ ~device_changed']_vars
    /\ [][pc' = "Device_new" => (pc = "idle" /\ device_changed)]_vars
    /\ [][(device_changed' /\ ~device_changed) =>
            (pc = "selector" /\ intents' = intents + 1)]_vars
    /\ [](pc = "next_frame" => ~device_changed)
    /\ [][pc = "assign" => ~error_window'.visible]_vars

\* A tick has ended with the error of a failed open on display and no open pending.
C12_Witness ==
    /\ pc = "idle"
    /\ error_window.visible
    /\ error_window.message = "Failed to open stream."
    /\ ~device_changed
C15_ResetWritesEveryDefault ==
    [][(pc = "reset_loop" /\ pc' # "reset_loop" /\ IsSome(dev)) =>
         /\ \A k \in 1..Len(ctrl_descriptors) :
              LET desc == ctrl_descriptors[k]
                  resets == {w \in 1..Len(writes') :
                               writes'[w].by = "reset" /\ writes'[w].pos = k}
              IN IF desc.typ \in {"Integer", "Boolean", "Menu"}
                 THEN /\ Cardinality(resets) = 1
                      /\ \A w \in resets :
                           /\ writes'[w].id = desc.id
                           /\ writes'[w].value =
                                  IF desc.typ = "Boolean"
                                  THEN ValueBoolean(desc.default # 0)
                                  ELSE ValueInteger(desc.default)
                 ELSE resets = {}
         /\ message' = message
         /\ error_window' = error_window]_vars
\* C16: in a tick stream.next() is called once if a stream is held and not at all
\* otherwise, whatever else the tick does; a failed fetch or decode lets the tick go on,
\* ends as the status message, and leaves the stream in place for the next tick.
C16_OneFetchPerTick ==
    /\ [](pc \in {"selector", "photo", "reset", "reset_loop", "controls", "ctrl_loop",
                  "status"}
            => fetches = IF IsSome(stream) THEN 1 ELSE 0)
    /\ [](pc \in {"main", "idle", "Device_new", "query_controls", "get_stream", "assign",
                  "next_frame", "crashed"}
            => fetches = 0)
    /\ [][(pc = "next_frame" /\ IsSome(stream)) =>
            (pc' = "selector" /\ IsSome(frame') /\ fetches' = 1 /\ stream' = stream)]_vars
    /\ [][(pc = "status" /\ IsSome(frame) /\ ~Unwrap(frame).ok) =>
            /\ pc' = "idle"
            /\ message' = <<Unwrap(frame).err>>
            /\ stream' = stream]_vars

\* A tick whose frame could not be decoded has ended: the message says so and the stream
\* is still held.
C16_Witness ==
    /\ pc = "idle"
    /\ IsSome(stream)
    /\ message = <<"Failed to decode jpg buffer">>

\* C17: a frame failure is the status message of the failing tick only: a tick whose
\* frame was fetched and decoded does not end with a frame failure as its message.
C17_FrameFailureClearedNextTick ==
    [][(pc = "status" /\ frame = Some(FrameOk)) =>
         message' \notin {<<"Failed to fetch frame">>, <<"Failed to decode jpg buffer">>}]_vars
\* C18: the catalog open_device loads is a permutation of what the device reports,
\* ordered by non-decreasing type, descriptors of one type in the order reported; when
\* the query fails it is empty; either way the open goes on to the stream negotiation,
\* and if that succeeds the catalog becomes ctrl_descriptors and the device is held.
C18_CatalogStableSorted ==
    /\ [][pc = "query_controls" =>
            LET reported == Catalog(KindOf(Unwrap(new_dev).index))
                n == Len(reported)
            IN /\ pc' = "get_stream"
               /\ IF faults' = faults
                  THEN /\ Len(new_descs') = n
                       /\ \E f \in [1..n -> 1..n] :
                            /\ \A j, k \in 1..n : j # k => f[j] # f[k]
                            /\ \A k \in 1..n : new_descs'[k] = reported[f[k]]
                            /\ \A j, k \in 1..n :
                                 j < k =>
                                   \/ TypeOrd(new_descs'[j].typ) < TypeOrd(new_descs'[k].typ)
                                   \/ /\ TypeOrd(new_descs'[j].typ) = TypeOrd(new_descs'[k].typ)
                                      /\ f[j] < f[k]
                  ELSE new_descs' = << >>]_vars
    /\ [][(pc = "get_stream" /\ faults' = faults
             /\ SupportsMJPG(KindOf(Unwrap(new_dev).index))) => pc' = "assign"]_vars
    /\ [][pc = "assign" =>
            (ctrl_descriptors' = new_descs /\ dev' = new_dev /\ IsSome(dev'))]_vars

\* A device is open whose catalog is not in the order the device reports it.
C18_Witness ==
    /\ IsSome(dev)
    /\ ctrl_descriptors # << >>
    /\ ctrl_descriptors # Catalog(KindOf(Unwrap(dev).index))
\* C19: open_device is all or nothing.  The device and the stream are held together or
\* not at all, the stream is the one negotiated on the device held, device, stream and
\* catalog change only by the assignments of a successful open (or are lost in a panic),
\* which store the three results of one open; a failed open leaves dev, stream,
\* ctrl_descriptors and menu_selections as they were.
C19_OpenAllOrNothing ==
    /\ [](IsSome(dev) <=> IsSome(stream))
    /\ [](IsSome(stream) => Unwrap(stream).dev = Unwrap(dev).id)
    /\ [](~IsSome(dev) => ctrl_descriptors = << >>)
    /\ [][<<dev, stream, ctrl_descriptors>>' # <<dev, stream, ctrl_descriptors>> =>
            \/ pc' = "crashed"
            \/ /\ pc = "assign"
               /\ dev' = new_dev
               /\ stream' = new_stream
               /\ ctrl_descriptors' = new_descs
               /\ Unwrap(new_stream).dev = Unwrap(new_dev).id]_vars
    /\ [][(pc \in {"Device_new", "get_stream"} /\ pc' = "next_frame") =>
            UNCHANGED <<dev, stream, ctrl_descriptors, menu_selections>>]_vars

\* The open of another device has just failed while a device with controls is held.
C19_Witness ==
    /\ pc = "next_frame"
    /\ error_window.visible
    /\ IsSome(dev)
    /\ IsSome(stream)
    /\ ctrl_descriptors # << >>
    /\ Unwrap(dev).index # device_index

\* C20: Device::new is reached only from the start of a tick with a change of selection
\* pending, and the attempt clears the pending change; KCam::new opens nothing, and
\* while no device is held no frame is fetched and no control is read, shown or written;
\* in the tick in which the selector is clicked the device held stays the one held, and
\* every write of the tick goes to it.
C20_OpenOnlyAfterSelectorChange ==
    /\ [][(pc' \in {"Device_new", "query_controls", "get_stream", "assign"}
             /\ pc \notin {"Device_new", "query_controls", "get_stream", "assign"}) =>
            (pc = "idle" /\ device_changed /\ pc' = "Device_new")]_vars
    /\ [][(pc \in {"Device_new", "get_stream", "assign"} /\ pc' = "next_frame") =>
            ~device_changed']_vars
    /\ [][pc = "main" =>
            /\ pc' = "idle"
            /\ ~device_changed'
            /\ dev' = None /\ stream' = None /\ ctrl_descriptors' = << >>]_vars
    /\ [](~IsSome(dev) =>
            /\ fetches = 0
            /\ reads = << >>
            /\ shown = {}
            /\ presented = None
            /\ writes = << >>)
    /\ [][(device_changed /\ pc \notin {"idle", "Device_new", "query_controls",
                                        "get_stream", "assign"}) =>
            (pc' = "crashed" \/ (dev' = dev /\ stream' = stream))]_vars
    /\ [](\A w \in 1..Len(writes) : IsSome(dev) /\ writes[w].dev = Unwrap(dev).id)

\* The selector was clicked on another device and, later in the same tick, a control of
\* the device still held was edited.
C20_Witness ==
    /\ device_changed
    /\ IsSome(dev)
    /\ Unwrap(dev).index # device_index
    /\ \E w \in 1..Len(writes) : writes[w].by = "edit" /\ writes[w].dev = Unwrap(dev).id

====
